---- MODULE Spec2Model ----
(***************************************************************************)
(* beancheck.py: one pass over the entries of a loaded ledger, then the    *)
(* reconciliation of the balance report, then four JSON documents.         *)
(*                                                                         *)
(* Python values are modelled as follows.                                  *)
(*   str        a sequence of one-character strings, <<"U","S","D">>       *)
(*   None       None in a slot that otherwise holds a str,                 *)
(*              NoneRec in a slot that otherwise holds an object           *)
(*   object     a record; hasattr(o, "f") is "f" \in DOMAIN o              *)
(*   dict       a function from its keys; {} is the empty function         *)
(*   list       a sequence;  set  a set                                    *)
(*   Decimal    [neg, coef, scale]: sign, coefficient digits, number of    *)
(*              fractional digits                                          *)
(*   date       [year, month, day]                                         *)
(***************************************************************************)
EXTENDS Integers, Sequences, FiniteSets, TLC

VARIABLES
  argv,                     \* sys.argv
  pc,                       \* position of the module body
  entries, errors,          \* what loader.load_file returned
  complete_payee_narration,
  reverse_flag_map,         \* the global _reverse_flag_map
  error_list,
  accounts, automatics, commodities, flagged_entries,
  payees, narrations, tags, links,
  i,                        \* index of the next entry of `for entry in entries`
  balance_lines, j,         \* balance_capture.get_lines() and the index of the next line
  output,                   \* the dict built at lines 197-204
  stdout,                   \* the lines printed so far
  twin                      \* the memory of a second run over the same entries and
                            \* errors, started with the other setting of --payeeNarration

vars == <<argv, pc, entries, errors, complete_payee_narration, reverse_flag_map,
          error_list, accounts, automatics, commodities, flagged_entries,
          payees, narrations, tags, links, i, balance_lines, j, output, stdout, twin>>

-----------------------------------------------------------------------------
(* Strings *)

None == <<"<None>">>
NoneRec == [py_none |-> TRUE]
IsNoneRec(v) == "py_none" \in DOMAIN v

EmptyStr == <<>>
S_None == <<"N","o","n","e">>
S_Bang == <<"!">>
S_Star == <<"*">>
S_Space == <<" ">>
S_PaddingInserted ==
  <<"(","P","a","d","d","i","n","g"," ","i","n","s","e","r","t","e","d">>
S_Transaction == <<"T","r","a","n","s","a","c","t","i","o","n">>
S_Posting == <<"P","o","s","t","i","n","g">>
S_HasFlag == <<" ","h","a","s"," ","f","l","a","g"," ">>
\* the placeholder of line 45, its two non-ASCII characters written "~" and "*"
S_Shrug == <<"~","\\","_","(","*",")","_","/","~">>

\* str.startswith
startswith(s, prefix) ==
  /\ Len(s) >= Len(prefix)
  /\ SubSeq(s, 1, Len(prefix)) = prefix

\* str(x) of a value that is a str or None
str(x) == IF x = None THEN S_None ELSE x

DigitChar(d) == CASE d = 0 -> "0" [] d = 1 -> "1" [] d = 2 -> "2" [] d = 3 -> "3"
                  [] d = 4 -> "4" [] d = 5 -> "5" [] d = 6 -> "6" [] d = 7 -> "7"
                  [] d = 8 -> "8" [] d = 9 -> "9"

\* str(n) of an int n >= 0
RECURSIVE IntToStr(_)
IntToStr(n) == IF n < 10 THEN <<DigitChar(n)>>
               ELSE Append(IntToStr(n \div 10), DigitChar(n % 10))

\* n in decimal, zero-padded to at least `width` characters
RECURSIVE ZeroPad(_, _)
ZeroPad(s, width) == IF Len(s) >= width THEN s ELSE ZeroPad(<<"0">> \o s, width)

\* str(datetime.date): ISO 8601, yyyy-mm-dd
DateStr(d) == ZeroPad(IntToStr(d.year), 4) \o <<"-">> \o ZeroPad(IntToStr(d.month), 2)
              \o <<"-">> \o ZeroPad(IntToStr(d.day), 2)

\* str(Decimal) for a number in plain notation: the coefficient with the point
\* `scale` digits from the right, zero-filled on the left of a short coefficient
DecimalStr(n) ==
  LET c == IF Len(n.coef) > n.scale THEN n.coef ELSE ZeroPad(n.coef, n.scale + 1)
      k == Len(c) - n.scale
      body == IF n.scale = 0 THEN c ELSE SubSeq(c, 1, k) \o <<".">> \o SubSeq(c, k + 1, Len(c))
  IN  (IF n.neg THEN <<"-">> ELSE <<>>) \o body

\* the value of a sequence of digit characters
DigitValue(ch) == CHOOSE d \in 0..9 : DigitChar(d) = ch
RECURSIVE DigitsValue(_)
DigitsValue(ds) == IF ds = <<>> THEN 0
                   ELSE 10 * DigitsValue(SubSeq(ds, 1, Len(ds) - 1)) + DigitValue(ds[Len(ds)])

RECURSIVE Pow10(_)
Pow10(n) == IF n = 0 THEN 1 ELSE 10 * Pow10(n - 1)

\* to_string with the number formatted to two decimal places, rounding half up
to_string_TwoPlaces(units) ==
  LET n == units.number
      v == DigitsValue(n.coef)
      q == IF n.scale > 2 THEN (v + 5 * Pow10(n.scale - 3)) \div Pow10(n.scale - 2)
           ELSE v * Pow10(2 - n.scale)
  IN  DecimalStr([neg |-> n.neg, coef |-> IntToStr(q), scale |-> 2])
        \o S_Space \o units.currency

\* Amount.to_string() with the default formatter: the number as written, a space,
\* the currency
to_string(units) == DecimalStr(units.number) \o S_Space \o units.currency

-----------------------------------------------------------------------------
(* dict helpers *)

EmptyDict == <<>>
Put(d, k, v) == [x \in (DOMAIN d) \cup {k} |-> IF x = k THEN v ELSE d[x]]
\* dict.get(k, default)
Get(d, k, default) == IF k \in DOMAIN d THEN d[k] ELSE default
\* getattr(o, name, default)
getattr(o, name, default) == IF name \in DOMAIN o THEN o[name] ELSE default

-----------------------------------------------------------------------------
(* Flag taxonomy: beancount.core.flags and the lazily built reverse map *)

S_FLAG_ == <<"F","L","A","G","_">>
\* the items of flags.__dict__ the lookup is built from, and one that is no flag
flags_dict ==
  { <<S_FLAG_ \o <<"O","K","A","Y">>, S_Star>>,
    <<S_FLAG_ \o <<"W","A","R","N","I","N","G">>, S_Bang>>,
    <<S_FLAG_ \o <<"P","A","D","D","I","N","G">>, <<"P">> >>,
    << <<"_","_","n","a","m","e","_","_">>, <<"f","l","a","g","s">> >> }

\* the dict comprehension of get_reverse_flag_map
BuildReverseFlagMap ==
  LET flagItems == {it \in flags_dict : startswith(it[1], S_FLAG_)}
  IN  [v \in {it[2] : it \in flagItems} |->
         LET it == CHOOSE x \in flagItems : x[2] = v
         IN  SubSeq(it[1], 6, Len(it[1]))]

get_reverse_flag_map(map) == IF map = None THEN BuildReverseFlagMap ELSE map

\* thing.__class__.__name__
ClassName(thing) == IF thing.kind = "Transaction" THEN S_Transaction
                    ELSE IF thing.kind = "Posting" THEN S_Posting
                    ELSE <<"O","t","h","e","r">>

\* the if/elif chain of get_flag_metadata that picks help_text
HelpText(thing) ==
  IF "narration" \in DOMAIN thing /\ thing.narration # None THEN str(thing.narration)
  ELSE IF "payee" \in DOMAIN thing /\ thing.payee # None THEN str(thing.payee)
  ELSE IF "account" \in DOMAIN thing /\ thing.account # None THEN str(thing.account)
  ELSE S_Shrug

FlagMessage(thing_class, flag_name, help_text) ==
  thing_class \o S_HasFlag \o flag_name \o <<" ", "(">> \o help_text \o <<")">>

\* get_flag_metadata with the lookup read without a default: a code it lacks
\* gives None, printed as "None"
get_flag_metadata_NoDefault(map, thing) ==
  LET rmap == get_reverse_flag_map(map)
      meta == thing.meta
      bad  == IsNoneRec(meta) \/ "filename" \notin DOMAIN meta \/ "lineno" \notin DOMAIN meta
  IN  [map    |-> rmap,
       raised |-> bad,
       rec    |-> IF bad THEN NoneRec
                  ELSE [file    |-> meta.filename,
                        line    |-> meta.lineno,
                        message |-> FlagMessage(ClassName(thing),
                                                str(Get(rmap, thing.flag, None)),
                                                HelpText(thing)),
                        flag    |-> thing.flag]]

\* get_flag_metadata(thing) against the lookup `map`: the lookup after the call,
\* whether the call raised (meta is None or lacks a key), and the record returned
get_flag_metadata(map, thing) ==
  LET rmap == get_reverse_flag_map(map)
      meta == thing.meta
      bad  == IsNoneRec(meta) \/ "filename" \notin DOMAIN meta \/ "lineno" \notin DOMAIN meta
  IN  [map    |-> rmap,
       raised |-> bad,
       rec    |-> IF bad THEN NoneRec
                  ELSE [file    |-> meta.filename,
                        line    |-> meta.lineno,
                        message |-> FlagMessage(ClassName(thing),
                                                Get(rmap, thing.flag, thing.flag),
                                                HelpText(thing)),
                        flag    |-> thing.flag]]

\* flagged_entries.append(get_flag_metadata(thing)) on the memory m
AppendFlagged(m, thing) ==
  LET g == get_flag_metadata(m.reverse_flag_map, thing)
  IN  IF g.raised
      THEN [m EXCEPT !.reverse_flag_map = g.map, !.raised = TRUE]
      ELSE [m EXCEPT !.reverse_flag_map = g.map,
                     !.flagged_entries = Append(@, g.rec)]

-----------------------------------------------------------------------------
(* The entry loop, lines 75-144, over a memory record m whose fields are the
   module's globals plus `raised` (an exception left the loop body) *)

\* lines 77-78
EntryFlagCheck(m, entry) ==
  IF "flag" \in DOMAIN entry /\ entry.flag = S_Bang THEN AppendFlagged(m, entry) ELSE m

\* CollectPayee without the test of the --payeeNarration flag
CollectPayee_Always(m, entry_payee) ==
  IF entry_payee # None /\ entry_payee # EmptyStr
  THEN [m EXCEPT !.payees = @ \cup {entry_payee}]
  ELSE m

\* lines 87-88
CollectPayee(m, entry_payee) ==
  IF m.complete_payee_narration /\ entry_payee # None /\ entry_payee # EmptyStr
  THEN [m EXCEPT !.payees = @ \cup {entry_payee}]
  ELSE m

\* CollectNarrationTagsLinks with the padding test guarding the narration only
CollectNarrationTagsLinks_TagsAlways(m, entry, entry_narration) ==
  [m EXCEPT !.narrations = IF /\ ~startswith(entry_narration, S_PaddingInserted)
                              /\ m.complete_payee_narration /\ entry_narration # EmptyStr
                           THEN @ \cup {entry_narration} ELSE @,
            !.tags = @ \cup getattr(entry, "tags", {}),
            !.links = @ \cup getattr(entry, "links", {})]

\* CollectNarrationTagsLinks with tags and links collected under the flag only
CollectNarrationTagsLinks_FlagOnly(m, entry, entry_narration) ==
  IF ~startswith(entry_narration, S_PaddingInserted) /\ m.complete_payee_narration
  THEN [m EXCEPT !.narrations = IF entry_narration # EmptyStr
                                THEN @ \cup {entry_narration} ELSE @,
                 !.tags = @ \cup getattr(entry, "tags", {}),
                 !.links = @ \cup getattr(entry, "links", {})]
  ELSE m

\* lines 91-95
CollectNarrationTagsLinks(m, entry, entry_narration) ==
  IF ~startswith(entry_narration, S_PaddingInserted)
  THEN [m EXCEPT !.narrations = IF m.complete_payee_narration /\ entry_narration # EmptyStr
                                THEN @ \cup {entry_narration} ELSE @,
                 !.tags = @ \cup getattr(entry, "tags", {}),
                 !.links = @ \cup getattr(entry, "links", {})]
  ELSE m

\* lines 102-106: the posting's currency added to txn_commodities
PostingCommodity(txn_commodities, units) ==
  IF ~IsNoneRec(units) /\ str(getattr(units, "currency", EmptyStr)) # EmptyStr
  THEN txn_commodities \cup {str(getattr(units, "currency", EmptyStr))}
  ELSE txn_commodities

\* lines 109-110
PostingFlagCheck(m, posting) ==
  IF "flag" \in DOMAIN posting /\ str(posting.flag) = S_Bang
  THEN AppendFlagged(m, posting) ELSE m

\* AppendAutomatic that leaves out an amount the list already holds
AppendAutomatic_Dedup(automatics_, filename, lineno, amount_str) ==
  LET of_file == Get(automatics_, filename, EmptyDict)
      amounts == Get(of_file, lineno, <<>>)
  IN  Put(automatics_, filename,
          Put(of_file, lineno,
              IF \E k \in DOMAIN amounts : amounts[k] = amount_str THEN amounts
              ELSE Append(amounts, amount_str)))

\* AppendAutomatic that puts the amount at the front of the list
AppendAutomatic_Prepend(automatics_, filename, lineno, amount_str) ==
  LET of_file == Get(automatics_, filename, EmptyDict)
      amounts == Get(of_file, lineno, <<>>)
  IN  Put(automatics_, filename, Put(of_file, lineno, <<amount_str>> \o amounts))

\* lines 121-123 on the defaultdict: automatics[filename] comes into being when read
AppendAutomatic(automatics_, filename, lineno, amount_str) ==
  LET of_file == Get(automatics_, filename, EmptyDict)
      amounts == Get(of_file, lineno, <<>>)
  IN  Put(automatics_, filename, Put(of_file, lineno, Append(amounts, amount_str)))

\* PostingAutomatic with the list of the line made before the units are looked at
PostingAutomatic_KeyBeforeUnits(m, posting, units) ==
  LET posting_meta == getattr(posting, "meta", EmptyDict)
  IN  IF ~IsNoneRec(posting_meta) /\ DOMAIN posting_meta # {}
         /\ Get(posting_meta, "automatic", FALSE)
      THEN LET filename == str(Get(posting_meta, "filename", EmptyStr))
               lineno   == Get(posting_meta, "lineno", 0)
               of_file  == Get(m.automatics, filename, EmptyDict)
               amounts  == Get(of_file, lineno, <<>>)
           IN  [m EXCEPT !.automatics =
                  Put(@, filename,
                      Put(of_file, lineno,
                          IF IsNoneRec(units) THEN amounts
                          ELSE Append(amounts, to_string(units))))]
      ELSE m

\* lines 113-123
PostingAutomatic(m, posting, units) ==
  LET posting_meta == getattr(posting, "meta", EmptyDict)
  IN  IF ~IsNoneRec(posting_meta) /\ DOMAIN posting_meta # {}
         /\ Get(posting_meta, "automatic", FALSE)
         /\ ~IsNoneRec(units)
      THEN [m EXCEPT !.automatics =
              AppendAutomatic(@, str(Get(posting_meta, "filename", EmptyStr)),
                                 Get(posting_meta, "lineno", 0), to_string(units))]
      ELSE m

\* one round of `for posting in entry_postings`, lines 101-123
PostingBody(acc, posting) ==
  LET units == getattr(posting, "units", NoneRec)
      txn   == PostingCommodity(acc.txn_commodities, units)
      m1    == PostingFlagCheck(acc.m, posting)
  IN  IF m1.raised THEN [m |-> m1, txn_commodities |-> txn]
      ELSE [m |-> PostingAutomatic(m1, posting, units), txn_commodities |-> txn]

RECURSIVE PostingLoop(_, _, _)
PostingLoop(acc, entry_postings, k) ==
  IF k > Len(entry_postings) \/ acc.m.raised THEN acc
  ELSE PostingLoop(PostingBody(acc, entry_postings[k]), entry_postings, k + 1)

\* TransactionBranch with the payee collected under the padding test as well
TransactionBranch_PayeeUnderPadding(m, entry) ==
  LET entry_payee     == getattr(entry, "payee", None)
      entry_narration == str(getattr(entry, "narration", EmptyStr))
      entry_postings  == getattr(entry, "postings", <<>>)
      m1  == IF startswith(entry_narration, S_PaddingInserted) THEN m
             ELSE CollectPayee(m, entry_payee)
      m2  == CollectNarrationTagsLinks(m1, entry, entry_narration)
      acc == PostingLoop([m |-> m2, txn_commodities |-> {}], entry_postings, 1)
  IN  IF acc.m.raised THEN acc.m
      ELSE [acc.m EXCEPT !.commodities = @ \cup acc.txn_commodities]

\* TransactionBranch with the commodities of the Transaction put in place of the set
TransactionBranch_LastOnly(m, entry) ==
  LET entry_payee     == getattr(entry, "payee", None)
      entry_narration == str(getattr(entry, "narration", EmptyStr))
      entry_postings  == getattr(entry, "postings", <<>>)
      m1  == CollectPayee(m, entry_payee)
      m2  == CollectNarrationTagsLinks(m1, entry, entry_narration)
      acc == PostingLoop([m |-> m2, txn_commodities |-> {}], entry_postings, 1)
  IN  IF acc.m.raised THEN acc.m
      ELSE [acc.m EXCEPT !.commodities = acc.txn_commodities]

\* lines 80-125
TransactionBranch(m, entry) ==
  LET entry_payee     == getattr(entry, "payee", None)
      entry_narration == str(getattr(entry, "narration", EmptyStr))
      entry_postings  == getattr(entry, "postings", <<>>)
      m1  == CollectPayee(m, entry_payee)
      m2  == CollectNarrationTagsLinks(m1, entry, entry_narration)
      acc == PostingLoop([m |-> m2, txn_commodities |-> {}], entry_postings, 1)
  IN  IF acc.m.raised THEN acc.m
      ELSE [acc.m EXCEPT !.commodities = @ \cup acc.txn_commodities]

\* OpenBranch with the prior record's close date kept on a second Open
OpenBranch_KeepClose(m, entry) ==
  LET account_name == str(getattr(entry, "account", EmptyStr))
      currencies   == getattr(entry, "currencies", None)
  IN  IF account_name # EmptyStr
      THEN [m EXCEPT !.accounts =
              Put(@, account_name,
                  [open       |-> DateStr(entry.date),
                   currencies |-> IF currencies = None THEN <<>> ELSE currencies,
                   close      |-> IF account_name \in DOMAIN m.accounts
                                  THEN m.accounts[account_name].close ELSE EmptyStr,
                   balance    |-> <<>>])]
      ELSE m

\* lines 127-135
OpenBranch(m, entry) ==
  LET account_name == str(getattr(entry, "account", EmptyStr))
      currencies   == getattr(entry, "currencies", None)
  IN  IF account_name # EmptyStr
      THEN [m EXCEPT !.accounts =
              Put(@, account_name,
                  [open       |-> DateStr(entry.date),
                   currencies |-> IF currencies = None THEN <<>> ELSE currencies,
                   close      |-> EmptyStr,
                   balance    |-> <<>>])]
      ELSE m

\* CloseBranch that writes the record anew, without its currencies
CloseBranch_DropCurrencies(m, entry) ==
  LET account_name == str(getattr(entry, "account", EmptyStr))
  IN  IF account_name # EmptyStr /\ account_name \in DOMAIN m.accounts
      THEN [m EXCEPT !.accounts[account_name] =
              [open |-> @.open, currencies |-> <<>>,
               close |-> DateStr(entry.date), balance |-> @.balance]]
      ELSE m

\* CloseBranch with a record made for an account that has none
CloseBranch_Create(m, entry) ==
  LET account_name == str(getattr(entry, "account", EmptyStr))
  IN  IF account_name = EmptyStr THEN m
      ELSE IF account_name \in DOMAIN m.accounts
      THEN [m EXCEPT !.accounts[account_name].close = DateStr(entry.date)]
      ELSE [m EXCEPT !.accounts =
              Put(@, account_name, [open |-> EmptyStr, currencies |-> <<>>,
                                    close |-> DateStr(entry.date), balance |-> <<>>])]

\* lines 136-144
CloseBranch(m, entry) ==
  LET account_name == str(getattr(entry, "account", EmptyStr))
  IN  IF account_name # EmptyStr /\ account_name \in DOMAIN m.accounts
      THEN [m EXCEPT !.accounts[account_name].close = DateStr(entry.date)]
      ELSE m

\* LoopBody with the flag of the entry checked after its branch has run
LoopBody_FlagLast(m, entry) ==
  LET m1 == IF entry.kind = "Transaction" THEN TransactionBranch(m, entry)
            ELSE IF entry.kind = "Open" THEN OpenBranch(m, entry)
            ELSE IF entry.kind = "Close" THEN CloseBranch(m, entry)
            ELSE m
  IN  IF m1.raised THEN m1 ELSE EntryFlagCheck(m1, entry)

\* LoopBody whose last branch takes every entry that is no Transaction for an Open
LoopBody_ElseOpen(m, entry) ==
  LET m1 == EntryFlagCheck(m, entry)
  IN  IF m1.raised THEN m1
      ELSE IF entry.kind = "Transaction" THEN TransactionBranch(m1, entry)
      ELSE IF entry.kind = "Close" THEN CloseBranch(m1, entry)
      ELSE OpenBranch(m1, entry)

\* the body of `for entry in entries`
LoopBody(m, entry) ==
  LET m1 == EntryFlagCheck(m, entry)
  IN  IF m1.raised THEN m1
      ELSE IF entry.kind = "Transaction" THEN TransactionBranch(m1, entry)
      ELSE IF entry.kind = "Open" THEN OpenBranch(m1, entry)
      ELSE IF entry.kind = "Close" THEN CloseBranch(m1, entry)
      ELSE m1

-----------------------------------------------------------------------------
(* Balance report, lines 147-186 *)

S_Newline == <<"\n">>
Whitespace == {" ", "\t", "\n"}

\* the index of the first occurrence of the character ch in s, 0 if there is none
RECURSIVE Find(_, _, _)
Find(s, ch, k) == IF k > Len(s) THEN 0
                  ELSE IF s[k] = ch THEN k
                  ELSE Find(s, ch, k + 1)

\* str.partition(ch): <<head, sep, tail>>
partition(s, ch) ==
  LET k == Find(s, ch, 1)
  IN  IF k = 0 THEN <<s, EmptyStr, EmptyStr>>
      ELSE <<SubSeq(s, 1, k - 1), <<ch>>, SubSeq(s, k + 1, Len(s))>>

\* str.strip()
RECURSIVE lstrip(_)
lstrip(s) == IF s # EmptyStr /\ Head(s) \in Whitespace THEN lstrip(Tail(s)) ELSE s
RECURSIVE rstrip(_)
rstrip(s) == IF s # EmptyStr /\ s[Len(s)] \in Whitespace
             THEN rstrip(SubSeq(s, 1, Len(s) - 1)) ELSE s
strip(s) == rstrip(lstrip(s))

\* str.split("\n")
RECURSIVE split_lines(_)
split_lines(text) ==
  LET p == partition(text, "\n")
  IN  IF p[2] = EmptyStr THEN <<text>> ELSE <<p[1]>> \o split_lines(p[3])

\* BalanceLineBody with the token cut from the remainder as it stands, not stripped
BalanceLineBody_NoStrip(m, line) ==
  IF line = EmptyStr THEN m
  ELSE LET p            == partition(line, " ")
           account_part == p[1]
           sep          == p[2]
           remainder    == p[3]
           balance_part == partition(remainder, " ")[1]
       IN  IF sep # EmptyStr /\ remainder # EmptyStr /\ balance_part # EmptyStr
              /\ account_part \in DOMAIN m.accounts
           THEN [m EXCEPT !.accounts[account_part].balance = Append(@, balance_part)]
           ELSE m

\* BalanceLineBody that stores the token as the whole balance list
BalanceLineBody_Replace(m, line) ==
  IF line = EmptyStr THEN m
  ELSE LET p            == partition(line, " ")
           account_part == p[1]
           sep          == p[2]
           remainder    == p[3]
           balance_part == partition(strip(remainder), " ")[1]
       IN  IF sep # EmptyStr /\ remainder # EmptyStr /\ balance_part # EmptyStr
              /\ account_part \in DOMAIN m.accounts
           THEN [m EXCEPT !.accounts[account_part].balance = <<balance_part>>]
           ELSE m

\* the body of `for line in balance_capture.get_lines()`, lines 170-186
BalanceLineBody(m, line) ==
  IF line = EmptyStr THEN m
  ELSE LET p            == partition(line, " ")
           account_part == p[1]
           sep          == p[2]
           remainder    == p[3]
           balance_part == partition(strip(remainder), " ")[1]
       IN  IF sep # EmptyStr /\ remainder # EmptyStr /\ balance_part # EmptyStr
              /\ account_part \in DOMAIN m.accounts
           THEN [m EXCEPT !.accounts[account_part].balance = Append(@, balance_part)]
           ELSE m

\* CleanUpBody that removes the empty string only
CleanUpBody_EmptyOnly(m) ==
  IF m.complete_payee_narration
  THEN [m EXCEPT !.payees = @ \ {EmptyStr}, !.narrations = @ \ {EmptyStr}]
  ELSE [m EXCEPT !.payees = @ \ {EmptyStr}]

\* lines 188-194
CleanUpBody(m) ==
  IF m.complete_payee_narration
  THEN [m EXCEPT !.payees = @ \ {EmptyStr, S_None}, !.narrations = @ \ {EmptyStr, S_None}]
  ELSE [m EXCEPT !.payees = @ \ {EmptyStr, S_None}]

-----------------------------------------------------------------------------
(* Output, lines 197-211. A printed line is held as the JSON value its text
   denotes: an array is a sequence, an object a function from its keys. *)

\* list(a_set): its elements, each once, in an order the language leaves open
ListsOf(a_set) ==
  {l \in [1..Cardinality(a_set) -> a_set] : \A a, b \in DOMAIN l : a # b => l[a] # l[b]}

\* json.dumps of automatics: the int keys of the inner dicts become strings
DumpAutomatics(automatics_) ==
  [f \in DOMAIN automatics_ |->
     [key \in {IntToStr(lineno) : lineno \in DOMAIN automatics_[f]} |->
        automatics_[f][CHOOSE lineno \in DOMAIN automatics_[f] : IntToStr(lineno) = key]]]

\* ErrorList built back to front
ErrorList_Reversed(errs) ==
  [k \in DOMAIN errs |-> [file    |-> errs[Len(errs) + 1 - k].source.filename,
                          line    |-> errs[Len(errs) + 1 - k].source.lineno,
                          message |-> errs[Len(errs) + 1 - k].message]]

\* the error_list comprehension, lines 58-61
ErrorList(errs) ==
  [k \in DOMAIN errs |-> [file    |-> errs[k].source.filename,
                          line    |-> errs[k].source.lineno,
                          message |-> errs[k].message]]

-----------------------------------------------------------------------------
(* The module body as a state machine *)

S_PayeeNarration == "--payeeNarration"

\* the globals as a memory record, and back
Mem == [complete_payee_narration |-> complete_payee_narration,
        reverse_flag_map |-> reverse_flag_map,
        accounts |-> accounts, automatics |-> automatics,
        commodities |-> commodities, flagged_entries |-> flagged_entries,
        payees |-> payees, narrations |-> narrations, tags |-> tags, links |-> links,
        raised |-> FALSE]

Store(m) ==
  /\ reverse_flag_map' = m.reverse_flag_map
  /\ accounts' = m.accounts
  /\ automatics' = m.automatics
  /\ commodities' = m.commodities
  /\ flagged_entries' = m.flagged_entries
  /\ payees' = m.payees
  /\ narrations' = m.narrations
  /\ tags' = m.tags
  /\ links' = m.links

\* lines 15 and 64-73 for a run with the given flag
InitialMem(flag) ==
  [complete_payee_narration |-> flag, reverse_flag_map |-> None,
   accounts |-> EmptyDict, automatics |-> EmptyDict, commodities |-> {},
   flagged_entries |-> <<>>, payees |-> {}, narrations |-> {}, tags |-> {}, links |-> {},
   raised |-> FALSE]

\* the second run takes a step of its own unless it has already failed
TwinStep(next_mem) == twin' = IF twin.raised THEN twin ELSE next_mem

Init ==
  /\ argv \in {<<"beancheck.py", "main.beancount">>,
               <<"beancheck.py", "main.beancount", S_PayeeNarration>>}
  /\ pc = "load"
  /\ entries = <<>> /\ errors = <<>>
  /\ complete_payee_narration = FALSE
  /\ reverse_flag_map = None
  /\ error_list = <<>>
  /\ accounts = EmptyDict /\ automatics = EmptyDict
  /\ commodities = {} /\ flagged_entries = <<>>
  /\ payees = {} /\ narrations = {} /\ tags = {} /\ links = {}
  /\ i = 1
  /\ balance_lines = <<>> /\ j = 1
  /\ output = NoneRec
  /\ stdout = <<>>
  /\ twin = InitialMem(FALSE)

\* Load with the error list printed as soon as the ledger is loaded
Load_PrintEarly(EntryLists, ErrorLists) ==
  /\ pc = "load"
  /\ entries' \in EntryLists
  /\ errors' \in ErrorLists
  /\ complete_payee_narration' = (\E k \in DOMAIN argv : argv[k] = S_PayeeNarration)
  /\ error_list' = ErrorList(errors')
  /\ twin' = InitialMem(~complete_payee_narration')
  /\ stdout' = <<error_list'>>
  /\ pc' = "loop"
  /\ UNCHANGED <<argv, reverse_flag_map, accounts, automatics, commodities,
                 flagged_entries, payees, narrations, tags, links, i,
                 balance_lines, j, output>>

\* lines 55-73: the loader returns entries and errors drawn from the given sets
Load(EntryLists, ErrorLists) ==
  /\ pc = "load"
  /\ entries' \in EntryLists
  /\ errors' \in ErrorLists
  /\ complete_payee_narration' = (\E k \in DOMAIN argv : argv[k] = S_PayeeNarration)
  /\ error_list' = ErrorList(errors')
  /\ twin' = InitialMem(~complete_payee_narration')
  /\ pc' = "loop"
  /\ UNCHANGED <<argv, reverse_flag_map, accounts, automatics, commodities,
                 flagged_entries, payees, narrations, tags, links, i,
                 balance_lines, j, output, stdout>>

\* line 55 raises: the process ends with nothing printed
LoadFail ==
  /\ pc = "load"
  /\ pc' = "failed"
  /\ UNCHANGED <<argv, entries, errors, complete_payee_narration, reverse_flag_map,
                 error_list, accounts, automatics, commodities, flagged_entries,
                 payees, narrations, tags, links, i, balance_lines, j, output,
                 stdout, twin>>

\* one round of the entry loop, lines 75-144
ProcessEntry ==
  /\ pc = "loop"
  /\ i <= Len(entries)
  /\ LET m == LoopBody(Mem, entries[i])
     IN  /\ Store(m)
         /\ pc' = IF m.raised THEN "failed" ELSE "loop"
  /\ TwinStep(LoopBody(twin, entries[i]))
  /\ i' = i + 1
  /\ UNCHANGED <<argv, entries, errors, complete_payee_narration, error_list,
                 balance_lines, j, output, stdout>>

\* DumpBalances run from inside the entry loop, before its last round
DumpBalances_Early(Reports) ==
  /\ pc = "loop"
  /\ \E text \in Reports : balance_lines' = split_lines(text)
  /\ j' = 1
  /\ pc' = "balance"
  /\ UNCHANGED <<argv, entries, errors, complete_payee_narration, reverse_flag_map,
                 error_list, accounts, automatics, commodities, flagged_entries,
                 payees, narrations, tags, links, i, output, stdout, twin>>

\* lines 159-166 and get_lines: the report rendered by dump_balances, split in lines
DumpBalances(Reports) ==
  /\ pc = "loop"
  /\ i > Len(entries)
  /\ \E text \in Reports : balance_lines' = split_lines(text)
  /\ j' = 1
  /\ pc' = "balance"
  /\ UNCHANGED <<argv, entries, errors, complete_payee_narration, reverse_flag_map,
                 error_list, accounts, automatics, commodities, flagged_entries,
                 payees, narrations, tags, links, i, output, stdout, twin>>

\* realize or dump_balances raises
DumpFail ==
  /\ pc = "loop"
  /\ i > Len(entries)
  /\ pc' = "failed"
  /\ UNCHANGED <<argv, entries, errors, complete_payee_narration, reverse_flag_map,
                 error_list, accounts, automatics, commodities, flagged_entries,
                 payees, narrations, tags, links, i, balance_lines, j, output,
                 stdout, twin>>

\* one round of the balance loop, lines 169-186
ProcessBalanceLine ==
  /\ pc = "balance"
  /\ j <= Len(balance_lines)
  /\ Store(BalanceLineBody(Mem, balance_lines[j]))
  /\ TwinStep(BalanceLineBody(twin, balance_lines[j]))
  /\ j' = j + 1
  /\ UNCHANGED <<argv, pc, entries, errors, complete_payee_narration, error_list, i,
                 balance_lines, output, stdout>>

\* lines 188-194
CleanUp ==
  /\ pc = "balance"
  /\ j > Len(balance_lines)
  /\ Store(CleanUpBody(Mem))
  /\ TwinStep(CleanUpBody(twin))
  /\ pc' = "build"
  /\ UNCHANGED <<argv, entries, errors, complete_payee_narration, error_list, i,
                 balance_lines, j, output, stdout>>

\* lines 197-204
BuildOutput ==
  /\ pc = "build"
  /\ \E c \in ListsOf(commodities), p \in ListsOf(payees), n \in ListsOf(narrations),
        t \in ListsOf(tags), l \in ListsOf(links) :
       output' = [accounts |-> accounts, commodities |-> c, payees |-> p,
                  narrations |-> n, tags |-> t, links |-> l]
  /\ pc' = "print"
  /\ UNCHANGED <<argv, entries, errors, complete_payee_narration, reverse_flag_map,
                 error_list, accounts, automatics, commodities, flagged_entries,
                 payees, narrations, tags, links, i, balance_lines, j, stdout, twin>>

\* print(json.dumps(value)): one more line on standard output
Emit(k, value, next_pc) ==
  /\ pc = "print"
  /\ Len(stdout) = k
  /\ stdout' = Append(stdout, value)
  /\ pc' = next_pc
  /\ UNCHANGED <<argv, entries, errors, complete_payee_narration, reverse_flag_map,
                 error_list, accounts, automatics, commodities, flagged_entries,
                 payees, narrations, tags, links, i, balance_lines, j, output, twin>>

PrintErrors     == Emit(0, error_list, "print")          \* line 208
PrintOutput     == Emit(1, output, "print")              \* line 209
PrintFlagged_Last == Emit(2, flagged_entries, "done")  \* the fourth print left out
PrintFlagged    == Emit(2, flagged_entries, "print")     \* line 210
PrintAutomatics == Emit(3, DumpAutomatics(automatics), "done")  \* line 211

\* flagged_entries.append(get_flag_metadata(thing)), lines 29-52, called on its
\* own with a thing drawn from Things, up to MaxCalls times
MaxCalls == 3

ResolveFlag(Things) ==
  /\ Len(flagged_entries) < MaxCalls
  /\ \E thing \in Things : Store(AppendFlagged(Mem, thing))
  /\ UNCHANGED <<argv, pc, entries, errors, complete_payee_narration, error_list, i,
                 balance_lines, j, output, stdout, twin>>

-----------------------------------------------------------------------------
(* The ledgers the loader returns *)

MaxEntries == 3

SeqsUpTo(D, n) == UNION {[1..k -> D] : k \in 0..n}

F_main == <<"m",".","b">>
F_inc  == <<"i",".","b">>
Day1 == [year |-> 2024, month |-> 1, day |-> 1]
Day2 == [year |-> 2024, month |-> 1, day |-> 2]
Acc_Cash == <<"A",":","C">>
Acc_Bank == <<"A",":","B">>
S_USD == <<"U","S","D">>
S_EUR == <<"E","U","R">>
S_Lunch == <<"L","u","n","c","h">>
S_Shop == <<"S","h","o","p">>
S_Cafe == <<"C","a","f","e">>

Meta(filename, lineno) == [filename |-> filename, lineno |-> lineno]
\* the metadata of a posting the loader filled in: __automatic__ is set
AutoMeta(filename, lineno) == [filename |-> filename, lineno |-> lineno, automatic |-> TRUE]

Dec(neg, coef, scale) == [neg |-> neg, coef |-> coef, scale |-> scale]
Amount(number, currency) == [number |-> number, currency |-> currency]
Amt_12_34_USD   == Amount(Dec(FALSE, <<"1","2","3","4">>, 2), S_USD)
Amt_100_438_USD == Amount(Dec(FALSE, <<"1","0","0","4","3","8">>, 3), S_USD)
Amt_m5_EUR      == Amount(Dec(TRUE, <<"5">>, 0), S_EUR)
Amt_0_05_USD    == Amount(Dec(FALSE, <<"5">>, 2), S_USD)
Amt_2_50_EUR    == Amount(Dec(FALSE, <<"2","5","0">>, 2), S_EUR)

Posting(account, units, flag, meta) ==
  [kind |-> "Posting", account |-> account, units |-> units, flag |-> flag, meta |-> meta]

P_plain         == Posting(Acc_Cash, Amt_12_34_USD, None, Meta(F_main, 2))
P_auto          == Posting(Acc_Bank, Amt_100_438_USD, None, AutoMeta(F_main, 3))
P_auto_same     == Posting(Acc_Cash, Amt_m5_EUR, None, AutoMeta(F_main, 3))
P_auto_inc      == Posting(Acc_Cash, Amt_0_05_USD, None, AutoMeta(F_inc, 3))
P_auto_line12   == Posting(Acc_Cash, Amt_2_50_EUR, None, AutoMeta(F_main, 12))
P_auto_nounits  == Posting(Acc_Bank, NoneRec, None, AutoMeta(F_main, 5))
P_nounits       == Posting(Acc_Bank, NoneRec, S_Star, Meta(F_main, 5))
P_flagged       == Posting(Acc_Bank, Amt_0_05_USD, S_Bang, Meta(F_main, 4))
P_flagged_auto  == Posting(Acc_Cash, Amt_2_50_EUR, S_Bang, AutoMeta(F_inc, 3))
P_nometa        == Posting(Acc_Cash, Amt_m5_EUR, None, NoneRec)
P_flagged_nometa == Posting(Acc_Cash, Amt_12_34_USD, S_Bang, NoneRec)

Txn(meta, flag, payee, narration, tags_, links_, postings) ==
  [kind |-> "Transaction", meta |-> meta, date |-> Day1, flag |-> flag, payee |-> payee,
   narration |-> narration, tags |-> tags_, links |-> links_, postings |-> postings]

Tag_trip == <<"t","r","i","p">>
Tag_food == <<"f","o","o","d">>
Link_inv == <<"i","n","v">>

Open(account, date, currencies) ==
  [kind |-> "Open", meta |-> Meta(F_main, 1), date |-> date, account |-> account,
   currencies |-> currencies]
Close(account, date) ==
  [kind |-> "Close", meta |-> Meta(F_main, 9), date |-> date, account |-> account]
\* a directive that is no Transaction, Open or Close
Note(account) ==
  [kind |-> "Note", meta |-> Meta(F_main, 7), date |-> Day1, account |-> account,
   comment |-> S_Lunch]

\* Open and Close entries over two account names and the empty name
AccountEntries ==
  { Open(Acc_Cash, Day1, None), Open(Acc_Cash, Day2, <<S_USD>>), Open(Acc_Bank, Day1, <<S_USD, S_EUR>>),
    Open(EmptyStr, Day1, None),
    Close(Acc_Cash, Day2), Close(Acc_Bank, Day1), Close(EmptyStr, Day2),
    Note(Acc_Cash) }

\* Transactions that differ in payee, narration, tags, links and flag
SetEntries ==
  { Txn(Meta(F_main, 10), S_Star, S_Shop, S_Lunch, {Tag_trip}, {Link_inv}, <<P_plain>>),
    Txn(Meta(F_main, 11), S_Bang, None, EmptyStr, {}, {}, <<P_plain>>),
    Txn(Meta(F_main, 12), S_Star, EmptyStr, S_None, {Tag_food}, {}, <<P_nounits>>),
    Txn(Meta(F_main, 13), S_Star, S_None, S_PaddingInserted \o <<" ","f","o","r">>,
        {Tag_food}, {Link_inv}, <<P_auto>>),
    Txn(Meta(F_main, 14), S_Bang, S_Cafe, S_PaddingInserted, {Tag_trip}, {}, <<>>),
    Txn(Meta(F_inc, 15), S_Bang, S_Cafe, SubSeq(S_PaddingInserted, 1, 8), {}, {Link_inv},
        <<P_plain>>),
    Txn(Meta(F_inc, 16), S_Star, None, None, {}, {}, <<P_plain>>) }

\* Transactions that differ in their postings
PostingEntries ==
  { Txn(Meta(F_main, 1), S_Star, None, S_Lunch, {}, {}, <<P_plain, P_auto, P_auto_nounits>>),
    Txn(Meta(F_main, 2), S_Bang, None, S_Lunch, {}, {}, <<P_flagged, P_auto_same>>),
    Txn(Meta(F_main, 6), S_Star, None, S_PaddingInserted \o <<" ","f","o","r">>,
        {Tag_trip}, {Link_inv}, <<P_auto_line12, P_auto_nounits, P_nounits>>),
    Txn(Meta(F_inc, 1), S_Star, None, S_Lunch, {Tag_food}, {}, <<P_flagged_auto, P_nometa>>),
    Txn(Meta(F_inc, 2), S_Star, None, EmptyStr, {}, {}, <<P_auto_inc, P_auto_inc, P_flagged>>),
    Txn(Meta(F_main, 8), S_Bang, None, S_Lunch, {}, {}, <<P_auto, P_flagged_nometa, P_plain>>),
    Note(Acc_Bank) }

\* a little of everything
MixedEntries ==
  { Open(Acc_Cash, Day1, None), Close(Acc_Cash, Day2), Note(Acc_Cash),
    Txn(Meta(F_main, 10), S_Bang, S_Shop, S_Lunch, {Tag_trip}, {Link_inv},
        <<P_flagged, P_auto>>),
    Txn(Meta(F_main, 13), S_Star, S_None, S_PaddingInserted, {Tag_food}, {}, <<P_auto_same>>),
    Txn(Meta(F_main, 8), S_Star, None, EmptyStr, {}, {}, <<P_flagged_nometa>>) }

S_ReviewMe == <<"R","e","v","i","e","w"," ","m","e">>

\* flagged Transactions and postings that differ in narration, payee and account
FlagEntries ==
  { Txn(Meta(F_main, 20), S_Bang, None, S_ReviewMe, {}, {}, <<P_plain>>),
    Txn(Meta(F_main, 21), S_Bang, S_Cafe, EmptyStr, {}, {}, <<P_plain>>),
    Txn(Meta(F_main, 22), S_Bang, S_Cafe, None, {}, {}, <<>>),
    Txn(Meta(F_main, 23), S_Bang, None, None, {}, {}, <<P_plain>>),
    Txn(Meta(F_main, 24), S_Bang, None, EmptyStr, {}, {}, <<>>),
    Txn(Meta(F_inc, 25), S_Star, S_Shop, S_Lunch, {}, {}, <<P_plain, P_flagged>>) }

\* units whose currency is the empty string
Amt_7_nocurrency == Amount(Dec(FALSE, <<"7">>, 0), EmptyStr)
P_nocurrency == Posting(Acc_Cash, Amt_7_nocurrency, None, Meta(F_main, 4))

\* Transactions whose postings differ in currency, and entries with currencies
\* that are no Transactions
CommodityEntries ==
  { Txn(Meta(F_main, 30), S_Star, None, S_Lunch, {}, {}, <<P_plain, P_auto_same>>),
    Txn(Meta(F_main, 31), S_Star, None, S_Lunch, {}, {}, <<P_nounits>>),
    Txn(Meta(F_main, 32), S_Star, None, S_Lunch, {}, {}, <<P_nocurrency, P_plain>>),
    Txn(Meta(F_main, 33), S_Star, None, S_Lunch, {}, {}, <<P_auto_line12>>),
    Txn(Meta(F_main, 34), S_Star, None, S_Lunch, {}, {}, <<>>),
    Open(Acc_Bank, Day1, <<S_USD, S_EUR>>),
    Note(Acc_Cash) }

LoaderError(filename, lineno, message) ==
  [source |-> Meta(filename, lineno), message |-> message]
Err_syntax  == LoaderError(F_main, 3, <<"s","y","n","t","a","x">>)
Err_balance == LoaderError(F_inc, 7, <<"b","a","l">>)

NoErrors == {<<>>}
SomeErrors == {<<>>, <<Err_syntax>>, <<Err_balance, Err_syntax>>}

\* what dump_balances writes
Report_two == Acc_Cash \o <<" "," ">> \o <<"1","2",".","3","4"," ">> \o S_USD \o S_Newline
              \o Acc_Bank \o <<" ">> \o <<"5"," ">> \o S_EUR \o S_Newline
Report_empty == EmptyStr
OneReport == {Report_two}
SomeReports == {Report_two, Report_empty}

\* the lines dump_balances can write: the account, spaces, the balance
MaxLines == 2

S_12_34 == <<"1","2",".","3","4">>
Acc_Unknown == <<"X",":","Y">>
Line_empty      == EmptyStr
Line_nospace    == Acc_Cash
Line_emptyrest  == Acc_Cash \o <<" ">>
Line_blankrest  == Acc_Cash \o <<" "," "," ">>
Line_cash_usd   == Acc_Cash \o <<" "," ">> \o S_12_34 \o <<" ">> \o S_USD
Line_cash_eur   == Acc_Cash \o <<" ">> \o <<"5"," ">> \o S_EUR \o <<" "," ">>
Line_bank       == Acc_Bank \o <<" ">> \o <<"7">>
Line_unknown    == Acc_Unknown \o <<" ">> \o <<"1"," ">> \o S_USD
Line_continued  == <<" "," "," "," ">> \o <<"3"," ">> \o S_EUR
ReportLines ==
  { Line_empty, Line_nospace, Line_emptyrest, Line_blankrest, Line_cash_usd,
    Line_cash_eur, Line_bank, Line_unknown, Line_continued }

\* the text of a report: every line followed by a newline
RECURSIVE ReportText(_)
ReportText(lines) ==
  IF lines = <<>> THEN EmptyStr
  ELSE Head(lines) \o S_Newline \o ReportText(Tail(lines))

ReportsUpTo(n) == {ReportText(lines) : lines \in SeqsUpTo(ReportLines, n)}
BalanceReports == ReportsUpTo(MaxLines)

\* ledgers for the balance report: accounts open, closed, opened twice
BalanceLedgers ==
  { <<Open(Acc_Cash, Day1, None)>>,
    <<Open(Acc_Cash, Day2, <<S_USD>>), Open(Acc_Bank, Day1, <<S_USD, S_EUR>>),
      Close(Acc_Bank, Day2)>>,
    <<Open(Acc_Bank, Day1, None), Close(Acc_Bank, Day2), Open(Acc_Bank, Day2, None)>> }

-----------------------------------------------------------------------------
(* Specifications: the same program over different ledgers *)

LoadMixed == Load(SeqsUpTo(MixedEntries, MaxEntries), SomeErrors)
DumpBalancesSome == DumpBalances(SomeReports)

Next ==
  \/ LoadMixed \/ LoadFail \/ ProcessEntry \/ DumpBalancesSome \/ DumpFail
  \/ ProcessBalanceLine \/ CleanUp \/ BuildOutput
  \/ PrintErrors \/ PrintOutput \/ PrintFlagged \/ PrintAutomatics

Spec == Init /\ [][Next]_vars

LoadAccounts == Load(SeqsUpTo(AccountEntries, MaxEntries), NoErrors)
DumpBalancesOne == DumpBalances(OneReport)

NextAccounts ==
  \/ LoadAccounts \/ LoadFail \/ ProcessEntry \/ DumpBalancesOne \/ DumpFail
  \/ ProcessBalanceLine \/ CleanUp \/ BuildOutput
  \/ PrintErrors \/ PrintOutput \/ PrintFlagged \/ PrintAutomatics

SpecAccounts == Init /\ [][NextAccounts]_vars

LoadSets == Load(SeqsUpTo(SetEntries, MaxEntries), NoErrors)

NextSets ==
  \/ LoadSets \/ LoadFail \/ ProcessEntry \/ DumpBalancesOne \/ DumpFail
  \/ ProcessBalanceLine \/ CleanUp \/ BuildOutput
  \/ PrintErrors \/ PrintOutput \/ PrintFlagged \/ PrintAutomatics

SpecSets == Init /\ [][NextSets]_vars

LoadPostings == Load(SeqsUpTo(PostingEntries, MaxEntries), NoErrors)

NextPostings ==
  \/ LoadPostings \/ LoadFail \/ ProcessEntry \/ DumpBalancesOne \/ DumpFail
  \/ ProcessBalanceLine \/ CleanUp \/ BuildOutput
  \/ PrintErrors \/ PrintOutput \/ PrintFlagged \/ PrintAutomatics

SpecPostings == Init /\ [][NextPostings]_vars

LoadFlags == Load(SeqsUpTo(FlagEntries, MaxEntries), NoErrors)

NextFlags ==
  \/ LoadFlags \/ LoadFail \/ ProcessEntry \/ DumpBalancesOne \/ DumpFail
  \/ ProcessBalanceLine \/ CleanUp \/ BuildOutput
  \/ PrintErrors \/ PrintOutput \/ PrintFlagged \/ PrintAutomatics

SpecFlags == Init /\ [][NextFlags]_vars

LoadBalance == Load(BalanceLedgers, NoErrors)
DumpBalancesLines == DumpBalances(BalanceReports)

NextBalance ==
  \/ LoadBalance \/ LoadFail \/ ProcessEntry \/ DumpBalancesLines \/ DumpFail
  \/ ProcessBalanceLine \/ CleanUp \/ BuildOutput
  \/ PrintErrors \/ PrintOutput \/ PrintFlagged \/ PrintAutomatics

SpecBalance == Init /\ [][NextBalance]_vars

LoadCommodities == Load(SeqsUpTo(CommodityEntries, MaxEntries), NoErrors)

NextCommodities ==
  \/ LoadCommodities \/ LoadFail \/ ProcessEntry \/ DumpBalancesOne \/ DumpFail
  \/ ProcessBalanceLine \/ CleanUp \/ BuildOutput
  \/ PrintErrors \/ PrintOutput \/ PrintFlagged \/ PrintAutomatics

SpecCommodities == Init /\ [][NextCommodities]_vars

\* flag codes: three of beancount.core.flags, two that are none of them
FlagCodes == {S_Bang, S_Star, <<"P">>, <<"?">>, <<"x">>}
FlagThings ==
  {Txn(Meta(F_main, 20), code, None, S_ReviewMe, {}, {}, <<>>) : code \in FlagCodes}

ResolveFlagThings == ResolveFlag(FlagThings)

NextResolver == ResolveFlagThings

SpecResolver == Init /\ [][NextResolver]_vars

-----------------------------------------------------------------------------
(* Properties *)

\* the entries the loop has been through
Seen == 1..(i - 1)
\* the run has printed its last document
Succeeded == pc = "done"
\* the entry loop has run to its end
PassOver == pc \in {"balance", "build", "print", "done"}

OutputKeys == {"accounts", "commodities", "payees", "narrations", "tags", "links"}

\* C1: a successful run has printed exactly four documents, in the order error
\* list, aggregate object, flagged-entry array, automatic-posting index; at no
\* point has a run printed more than four or printed them in another order.
C1_FourDocumentsInOrder ==
  /\ Len(stdout) <= 4
  /\ Succeeded => Len(stdout) = 4
  /\ Len(stdout) >= 1 => stdout[1] = ErrorList(errors)
  /\ Len(stdout) >= 2 => DOMAIN stdout[2] = OutputKeys /\ stdout[2] = output
  /\ Len(stdout) >= 3 => stdout[3] = flagged_entries
  /\ Len(stdout) >= 4 => stdout[4] = DumpAutomatics(automatics) /\ Succeeded

C1_Witness ==
  /\ Succeeded
  /\ Len(stdout) = 4
  /\ stdout[1] # <<>> /\ stdout[3] # <<>> /\ DOMAIN stdout[4] # {}
  /\ DOMAIN stdout[2].accounts # {}

\* the account names of the Open entries among the entries at the positions K
OpenedNames(K) == {entries[k].account : k \in {x \in K : entries[x].kind = "Open"}}
ClosedNames(K) == {entries[k].account : k \in {x \in K : entries[x].kind = "Close"}}

\* C2 as claimed: a name is a key of accounts iff an Open entry carrying it has
\* been processed, for every name an Open entry carries.
C2_KeyIffOpenSeen ==
  pc # "load" => \A name \in OpenedNames(Seen) \cup DOMAIN accounts :
                   name \in DOMAIN accounts <=> name \in OpenedNames(Seen)

\* C2 amended: a name is a key of accounts, and of the accounts mapping printed,
\* iff it is not empty and an Open entry carrying it has been processed.
C2_KeyIffNonEmptyOpenSeen ==
  /\ pc \notin {"load", "failed"} => DOMAIN accounts = OpenedNames(Seen) \ {EmptyStr}
  /\ Len(stdout) >= 2 =>
       DOMAIN stdout[2].accounts = OpenedNames(DOMAIN entries) \ {EmptyStr}

C2_Witness ==
  /\ Len(stdout) >= 2
  /\ EmptyStr \in OpenedNames(DOMAIN entries)
  /\ Acc_Cash \in DOMAIN stdout[2].accounts
  /\ Acc_Bank \in ClosedNames(DOMAIN entries) \ DOMAIN stdout[2].accounts

\* C3 as claimed: the close field of a record is empty iff no Close entry for
\* its name has been processed, wherever it stood.
C3_CloseEmptyIffNoClose ==
  pc \notin {"load", "failed"} =>
    \A name \in DOMAIN accounts :
      accounts[name].close = EmptyStr <=> name \notin ClosedNames(Seen)

\* the position of the last Open entry for name among the positions K
LastOpen(name, K) ==
  CHOOSE k \in K : /\ entries[k].kind = "Open" /\ entries[k].account = name
                   /\ \A x \in K : (entries[x].kind = "Open" /\ entries[x].account = name)
                                     => x <= k

\* C3 amended: the close field of a record is empty iff no Close entry for its
\* name has been processed after the last Open entry for that name.
C3_CloseEmptyIffNoCloseSinceOpen ==
  /\ pc \notin {"load", "failed"} =>
       \A name \in DOMAIN accounts :
         accounts[name].close = EmptyStr
           <=> name \notin ClosedNames({k \in Seen : k > LastOpen(name, Seen)})
  /\ Len(stdout) >= 2 =>
       \A name \in DOMAIN stdout[2].accounts :
         stdout[2].accounts[name].close = EmptyStr
           <=> name \notin ClosedNames({k \in DOMAIN entries :
                                          k > LastOpen(name, DOMAIN entries)})

\* an Open, a Close and a second Open of one account, and the document printed
C3_Witness ==
  /\ Len(stdout) >= 2
  /\ \E a, b, c \in DOMAIN entries :
       /\ a < b /\ b < c
       /\ entries[a].kind = "Open" /\ entries[b].kind = "Close" /\ entries[c].kind = "Open"
       /\ entries[a].account = Acc_Cash /\ entries[b].account = Acc_Cash
       /\ entries[c].account = Acc_Cash
       /\ stdout[2].accounts[Acc_Cash].close = EmptyStr

\* the next step of the entry loop takes a Close entry whose account has no record
AtUnknownClose ==
  /\ pc = "loop" /\ i <= Len(entries)
  /\ entries[i].kind = "Close"
  /\ entries[i].account \notin DOMAIN accounts

\* C4: a Close entry whose account has no record raises nothing, adds no
\* record and no error, changes no record and no other collection, and the
\* loop goes on to the next entry.
C4_UnknownCloseIsNoOp ==
  [][AtUnknownClose =>
       /\ pc' = "loop" /\ i' = i + 1
       /\ accounts' = accounts /\ error_list' = error_list
       /\ UNCHANGED <<automatics, commodities, flagged_entries, payees, narrations,
                      tags, links, reverse_flag_map, stdout>>]_vars

\* such a Close has just been processed while another account has a record
C4_Witness ==
  /\ pc = "loop" /\ i > 1
  /\ entries[i - 1].kind = "Close"
  /\ entries[i - 1].account = Acc_Bank
  /\ Acc_Bank \notin OpenedNames(1..(i - 2))
  /\ DOMAIN accounts = {Acc_Cash}

-----------------------------------------------------------------------------
(* Postings of the ledger, for the properties of the automatic-posting index
   and of the flagged-entry array *)

\* the postings of the Transactions among entries 1..n, in entry and posting order
RECURSIVE PostingsUpTo(_)
PostingsUpTo(n) ==
  IF n = 0 THEN <<>>
  ELSE PostingsUpTo(n - 1)
         \o (IF entries[n].kind = "Transaction" THEN entries[n].postings ELSE <<>>)

\* the posting is marked automatically inferred, has units, and carries (f, l)
IsAutomaticAt(p, f, l) ==
  /\ ~IsNoneRec(p.meta) /\ "automatic" \in DOMAIN p.meta /\ p.meta.automatic
  /\ ~IsNoneRec(p.units)
  /\ p.meta.filename = f /\ p.meta.lineno = l

AutomaticAt(postings, f, l) == SelectSeq(postings, LAMBDA p : IsAutomaticAt(p, f, l))
Rendered(postings) == [k \in DOMAIN postings |-> to_string(postings[k].units)]

\* every file and line a posting of the ledger carries, and every key of the index
PostingMetas == {p.meta : p \in {q \in UNION {{e.postings[k] : k \in DOMAIN e.postings} :
                                   e \in {x \in {entries[k] : k \in DOMAIN entries} :
                                            x.kind = "Transaction"}} : ~IsNoneRec(q.meta)}}
Files == {meta.filename : meta \in PostingMetas} \cup DOMAIN automatics
Lines == {meta.lineno : meta \in PostingMetas}
           \cup UNION {DOMAIN automatics[f] : f \in DOMAIN automatics}

AmountsAt(index, f, key) == Get(Get(index, f, EmptyDict), key, <<>>)

\* the next step of the entry loop takes a Transaction with the padding narration
AtPaddingTransaction ==
  /\ pc = "loop" /\ i <= Len(entries)
  /\ entries[i].kind = "Transaction"
  /\ entries[i].narration # None
  /\ Len(entries[i].narration) >= Len(S_PaddingInserted)
  /\ \A k \in DOMAIN S_PaddingInserted : entries[i].narration[k] = S_PaddingInserted[k]

\* C5: processing a Transaction whose narration begins with "(Padding inserted"
\* leaves tags, links and narrations as they were; if the step raises nothing,
\* every currency of its postings' units is in commodities afterwards and every
\* automatic posting with units has its amount appended at its file and line.
C5_PaddingTransaction ==
  [][AtPaddingTransaction =>
       /\ tags' = tags /\ links' = links /\ narrations' = narrations
       /\ pc' = "loop" =>
            /\ commodities' = commodities \cup
                 {entries[i].postings[k].units.currency :
                    k \in {x \in DOMAIN entries[i].postings :
                             ~IsNoneRec(entries[i].postings[x].units)}}
            /\ \A f \in Files, l \in Lines :
                 AmountsAt(automatics', f, l) =
                   AmountsAt(automatics, f, l)
                     \o Rendered(AutomaticAt(entries[i].postings, f, l))]_vars

\* a padding Transaction with a tag, a link and an automatic posting was processed
\* in verbose mode
C5_Witness ==
  /\ pc = "loop" /\ i > 1 /\ complete_payee_narration
  /\ entries[i - 1].kind = "Transaction"
  /\ startswith(entries[i - 1].narration, S_PaddingInserted)
  /\ entries[i - 1].tags # {} /\ entries[i - 1].links # {}
  /\ tags = {} /\ links = {} /\ narrations = {}
  /\ S_EUR \in commodities
  /\ AmountsAt(automatics, F_main, 12) # <<>>

InArray(x, array) == \E k \in DOMAIN array : array[k] = x

\* C6: neither the payees array nor the narrations array of the aggregate object
\* printed holds the empty string or the string "None".
C6_NoEmptyOrNone ==
  Len(stdout) >= 2 =>
    /\ ~InArray(EmptyStr, stdout[2].payees) /\ ~InArray(S_None, stdout[2].payees)
    /\ ~InArray(EmptyStr, stdout[2].narrations) /\ ~InArray(S_None, stdout[2].narrations)

\* a verbose run whose ledger has the payees "" and "None" and the narrations "",
\* "None" and None
C6_Witness ==
  /\ Len(stdout) >= 2 /\ complete_payee_narration
  /\ \E k \in DOMAIN entries : entries[k].payee = S_None
  /\ \E k \in DOMAIN entries : entries[k].payee = EmptyStr /\ entries[k].narration = S_None
  /\ \E k \in DOMAIN entries : entries[k].narration = None
  /\ stdout[2].payees = <<>> /\ stdout[2].narrations = <<>>

\* of the pair of runs, the memory of the one without and of the one with the flag
PairReady == pc \in {"build", "print", "done"} /\ ~twin.raised
WithoutFlag == IF complete_payee_narration THEN twin ELSE Mem
WithFlag == IF complete_payee_narration THEN Mem ELSE twin

\* C7: of two runs over the same entries that differ in the flag only, the one
\* without the flag has no payees, and no more narrations and no more payees than
\* the one with the flag; the arrays printed have the sizes of these sets.
C7_FlagOffIsSmaller ==
  /\ PairReady =>
       /\ WithoutFlag.payees = {}
       /\ Cardinality(WithoutFlag.narrations) <= Cardinality(WithFlag.narrations)
       /\ Cardinality(WithoutFlag.payees) <= Cardinality(WithFlag.payees)
  /\ Len(stdout) >= 2 =>
       /\ Len(stdout[2].payees) = Cardinality(payees)
       /\ Len(stdout[2].narrations) = Cardinality(narrations)
       /\ ~complete_payee_narration => stdout[2].payees = <<>>

\* a run without the flag has printed while its twin with the flag holds payees
\* and narrations
C7_Witness ==
  /\ Len(stdout) >= 2 /\ ~complete_payee_narration
  /\ twin.complete_payee_narration
  /\ Cardinality(twin.payees) >= 2 /\ Cardinality(twin.narrations) >= 2
  /\ stdout[2].payees = <<>>

\* the flagged objects of the ledger: <<k, 0>> is the Transaction at entry k, <<k, n>>
\* its n-th posting
FlaggedTransactions ==
  {<<k, 0>> : k \in {x \in DOMAIN entries :
                       entries[x].kind = "Transaction" /\ entries[x].flag = S_Bang}}
FlaggedPostings ==
  UNION {{<<k, n>> : n \in {x \in DOMAIN entries[k].postings :
                              entries[k].postings[x].flag = S_Bang}} :
           k \in {x \in DOMAIN entries : entries[x].kind = "Transaction"}}
ObjectAt(o) == IF o[2] = 0 THEN entries[o[1]] ELSE entries[o[1]].postings[o[2]]
\* the records of the flagged-entry array that carry the file and line of meta
RecordsAt(meta) ==
  {k \in DOMAIN flagged_entries :
     flagged_entries[k].file = meta.filename /\ flagged_entries[k].line = meta.lineno}
\* the flagged objects that carry the file and line of meta
FlaggedAt(meta) ==
  {o \in FlaggedTransactions \cup FlaggedPostings : ObjectAt(o).meta = meta}

\* C8 as claimed: when the run has ended, the flagged-entry array holds one record
\* for each Transaction flagged "!" and one for each posting flagged "!", with or
\* without metadata, each with flag "!", and nothing else.
C8_OneRecordPerFlaggedObject ==
  pc \in {"done", "failed"} =>
    /\ Len(flagged_entries) = Cardinality(FlaggedTransactions \cup FlaggedPostings)
    /\ \A k \in DOMAIN flagged_entries : flagged_entries[k].flag = S_Bang
    /\ \A o \in FlaggedTransactions \cup FlaggedPostings :
         ~IsNoneRec(ObjectAt(o).meta) =>
           Cardinality(RecordsAt(ObjectAt(o).meta)) = Cardinality(FlaggedAt(ObjectAt(o).meta))

\* C9: once the entry loop is over, the list at every (file, line) of the index
\* is the sequence of rendered amounts of the postings marked automatic, with
\* units, that carry that file and line, in entry and posting order, duplicates
\* kept; the document printed holds the same lists under the line as a string.
C9_AutomaticsInEncounterOrder ==
  /\ PassOver =>
       \A f \in Files, l \in Lines :
         AmountsAt(automatics, f, l) = Rendered(AutomaticAt(PostingsUpTo(Len(entries)), f, l))
  /\ Succeeded =>
       /\ \A f \in Files, l \in Lines :
            AmountsAt(stdout[4], f, IntToStr(l))
              = Rendered(AutomaticAt(PostingsUpTo(Len(entries)), f, l))
       /\ \A f \in DOMAIN stdout[4] : DOMAIN stdout[4][f] \subseteq {IntToStr(l) : l \in Lines}

\* two equal automatic postings at one place, one at another line of the file, one
\* without units, and the document printed
C9_Witness ==
  /\ Succeeded
  /\ Len(AmountsAt(stdout[4], F_inc, <<"3">>)) >= 2
  /\ AmountsAt(stdout[4], F_inc, <<"3">>)[1] = AmountsAt(stdout[4], F_inc, <<"3">>)[2]
  /\ Len(AmountsAt(stdout[4], F_main, <<"3">>)) >= 2
  /\ AmountsAt(stdout[4], F_main, <<"3">>)[1] # AmountsAt(stdout[4], F_main, <<"3">>)[2]
  /\ \E p \in {PostingsUpTo(Len(entries))[k] : k \in DOMAIN PostingsUpTo(Len(entries))} :
       p = P_auto_nounits

\* what an amount string says: sign, digits as a number, count of fractional digits,
\* currency
ReadAmount(text) ==
  LET p      == partition(text, " ")
      num    == p[1]
      neg    == num # <<>> /\ Head(num) = "-"
      digits == IF neg THEN Tail(num) ELSE num
      dot    == Find(digits, ".", 1)
      whole  == IF dot = 0 THEN digits ELSE SubSeq(digits, 1, dot - 1)
      frac   == IF dot = 0 THEN <<>> ELSE SubSeq(digits, dot + 1, Len(digits))
  IN  [neg |-> neg, value |-> DigitsValue(whole \o frac), scale |-> Len(frac),
       currency |-> p[3]]

\* what the units of a posting hold, in the same terms
UnitsValue(units) ==
  [neg |-> units.number.neg, value |-> DigitsValue(units.number.coef),
   scale |-> units.number.scale, currency |-> units.currency]

\* C10: every amount string of the index printed says exactly what the units of
\* its posting hold: same sign, same digits, same number of fractional digits,
\* same currency; nothing is rounded or reformatted.
C10_AmountTextPreserved ==
  Succeeded =>
    \A f \in Files, l \in Lines :
      LET printed  == AmountsAt(stdout[4], f, IntToStr(l))
          postings == AutomaticAt(PostingsUpTo(Len(entries)), f, l)
      IN  /\ Len(printed) = Len(postings)
          /\ \A k \in DOMAIN printed : ReadAmount(printed[k]) = UnitsValue(postings[k].units)

\* the amount 100.438 USD of an automatic posting has been printed as "100.438 USD"
C10_Witness ==
  /\ Succeeded
  /\ InArray(<<"1","0","0",".","4","3","8"," ","U","S","D">>,
             AmountsAt(stdout[4], F_main, <<"3">>))
  /\ InArray(<<"0",".","0","5"," ","U","S","D">>, AmountsAt(stdout[4], F_inc, <<"3">>))


\* C11: whatever errors the loader returned, the first document printed holds one
\* {file, line, message} record per error, in the loader's order, with that
\* error's own file, line and message; and a run that has printed its last
\* document has been through every entry and has printed all four.
C11_ErrorsListedRunGoesOn ==
  /\ Len(stdout) >= 1 =>
       /\ Len(stdout[1]) = Len(errors)
       /\ \A k \in DOMAIN errors :
            /\ DOMAIN stdout[1][k] = {"file", "line", "message"}
            /\ stdout[1][k].file = errors[k].source.filename
            /\ stdout[1][k].line = errors[k].source.lineno
            /\ stdout[1][k].message = errors[k].message
  /\ Succeeded => i = Len(entries) + 1 /\ Len(stdout) = 4

\* a run with two loader errors has been through three entries and printed everything
C11_Witness ==
  /\ Succeeded
  /\ errors = <<Err_balance, Err_syntax>>
  /\ Len(entries) = 3 /\ i = 4
  /\ flagged_entries # <<>> /\ DOMAIN accounts # {}
  /\ Len(stdout) = 4 /\ Len(stdout[1]) = 2


S_automatics == <<"a","u","t","o","m","a","t","i","c","s">>
S_cost_basis == <<"c","o","s","t","_","b","a","s","i","s">>

\* C12: a run that has failed has printed nothing, and nothing is printed while
\* the ledger is loaded, the entries are processed or the balances reconciled.
C12_NoOutputOnFailure ==
  /\ pc = "failed" => stdout = <<>>
  /\ pc \in {"load", "loop", "balance"} => stdout = <<>>

\* a run with loader errors has failed in the entry loop, after it had recorded
\* a flagged entry
C12_Witness ==
  /\ pc = "failed" /\ twin.raised
  /\ errors # <<>> /\ i > 1
  /\ flagged_entries # <<>>
  /\ stdout = <<>>

\* C13 as claimed: the fourth document printed is an object whose member
\* "automatics" holds the automatic-posting index and which has a member
\* "cost_basis".
C13_FourthDocumentMembers ==
  Succeeded =>
    /\ S_automatics \in DOMAIN stdout[4]
    /\ S_cost_basis \in DOMAIN stdout[4]
    /\ stdout[4][S_automatics] = DumpAutomatics(automatics)


\* the dates of the ledgers, as the text the documents show
S_2024_01_01 == <<"2","0","2","4","-","0","1","-","0","1">>
S_2024_01_02 == <<"2","0","2","4","-","0","1","-","0","2">>
IsoText(date) == IF date = Day1 THEN S_2024_01_01 ELSE S_2024_01_02

\* the next step of the entry loop takes an Open entry with a non-empty account name
AtOpen ==
  /\ pc = "loop" /\ i <= Len(entries)
  /\ entries[i].kind = "Open"
  /\ entries[i].account # EmptyStr

\* C14: processing an Open entry with a non-empty account name leaves the record
\* of that account equal to {open: the entry's date, currencies: the entry's
\* currencies or [], close: "", balance: []}, whatever record was there before.
C14_LastOpenWins ==
  [][AtOpen =>
       /\ entries[i].account \in DOMAIN accounts'
       /\ accounts'[entries[i].account] =
            [open       |-> IsoText(entries[i].date),
             currencies |-> IF entries[i].currencies = None THEN <<>>
                            ELSE entries[i].currencies,
             close      |-> EmptyStr,
             balance    |-> <<>>]]_vars

\* an account opened with currencies and closed has been opened again without
C14_Witness ==
  /\ pc = "loop" /\ i = 4
  /\ entries[1] = Open(Acc_Cash, Day2, <<S_USD>>)
  /\ entries[2] = Close(Acc_Cash, Day2)
  /\ entries[3] = Open(Acc_Cash, Day1, None)
  /\ accounts[Acc_Cash].close = EmptyStr /\ accounts[Acc_Cash].currencies = <<>>
  /\ accounts[Acc_Cash].open = S_2024_01_01

\* the next step of the entry loop takes a Close entry whose account has a record
AtKnownClose ==
  /\ pc = "loop" /\ i <= Len(entries)
  /\ entries[i].kind = "Close"
  /\ entries[i].account \in DOMAIN accounts

\* C15: a Close entry for an account that has a record sets the close field of
\* that record to the entry's date and changes nothing else; an Open without
\* currencies on 2024-01-01 followed by a Close on 2024-01-02 yields
\* {open: "2024-01-01", close: "2024-01-02", currencies: [], balance: []}.
C15_CloseSetsCloseOnly ==
  /\ [][AtKnownClose =>
          /\ DOMAIN accounts' = DOMAIN accounts
          /\ \A name \in DOMAIN accounts :
               /\ accounts'[name].open = accounts[name].open
               /\ accounts'[name].currencies = accounts[name].currencies
               /\ accounts'[name].balance = accounts[name].balance
               /\ accounts'[name].close = IF name = entries[i].account
                                          THEN IsoText(entries[i].date)
                                          ELSE accounts[name].close
          /\ UNCHANGED <<automatics, commodities, flagged_entries, payees, narrations,
                         tags, links, error_list, stdout>>]_vars
  /\ [](/\ pc = "loop" /\ i = 3
        /\ entries[1] = Open(Acc_Cash, Day1, None)
        /\ entries[2] = Close(Acc_Cash, Day2)
        => accounts[Acc_Cash] = [open |-> S_2024_01_01, close |-> S_2024_01_02,
                                 currencies |-> <<>>, balance |-> <<>>])

\* an account with currencies has been closed while another account has a record
C15_Witness ==
  /\ pc = "loop" /\ i = 4
  /\ entries[3].kind = "Close" /\ entries[3].account = Acc_Bank
  /\ DOMAIN accounts = {Acc_Cash, Acc_Bank}
  /\ accounts[Acc_Bank].close = S_2024_01_01
  /\ accounts[Acc_Bank].currencies = <<S_USD, S_EUR>>
  /\ accounts[Acc_Cash].close = EmptyStr


\* the flagged objects of entries 1..n in the order the loop meets them: a flagged
\* Transaction, then its flagged postings in posting order
RECURSIVE FlaggedUpTo(_)
FlaggedUpTo(n) ==
  IF n = 0 THEN <<>>
  ELSE FlaggedUpTo(n - 1)
         \o (IF entries[n].kind = "Transaction" /\ entries[n].flag = S_Bang
             THEN <<entries[n]>> ELSE <<>>)
         \o (IF entries[n].kind = "Transaction"
             THEN SelectSeq(entries[n].postings, LAMBDA p : p.flag = S_Bang) ELSE <<>>)

S_WARNING == <<"W","A","R","N","I","N","G">>

\* the help text the priority rule gives: narration if present and not empty,
\* else payee if present, else account if present, else the placeholder
HelpByPriority(o) ==
  IF "narration" \in DOMAIN o /\ o.narration # None /\ o.narration # EmptyStr
  THEN o.narration
  ELSE IF "payee" \in DOMAIN o /\ o.payee # None THEN o.payee
  ELSE IF "account" \in DOMAIN o /\ o.account # None THEN o.account
  ELSE S_Shrug

\* C17 as claimed: the message of every flag record carries the help text the
\* priority rule gives for its object.
C17_HelpTextByPriority ==
  PassOver =>
    \A k \in DOMAIN flagged_entries :
      LET o == FlaggedUpTo(Len(entries))[k]
      IN  flagged_entries[k].message =
            (IF o.kind = "Transaction" THEN S_Transaction ELSE S_Posting)
              \o S_HasFlag \o S_WARNING \o <<" ", "(">> \o HelpByPriority(o) \o <<")">>


-----------------------------------------------------------------------------
(* Balance reconciliation *)

\* the text before and after the first space of a report line
HasSpace(line) == \E k \in DOMAIN line : line[k] = " "
FirstSpace(line) ==
  CHOOSE k \in DOMAIN line : line[k] = " " /\ \A x \in 1..(k - 1) : line[x] # " "
BeforeFirstSpace(line) == SubSeq(line, 1, FirstSpace(line) - 1)
AfterFirstSpace(line) == SubSeq(line, FirstSpace(line) + 1, Len(line))
IsBlank(s) == \A k \in DOMAIN s : s[k] \in Whitespace

\* the first maximal run of non-whitespace characters of a text that is not blank
FirstToken(s) ==
  LET from == CHOOSE k \in DOMAIN s :
                s[k] \notin Whitespace /\ \A x \in 1..(k - 1) : s[x] \in Whitespace
      to   == CHOOSE e \in from..Len(s) :
                /\ \A x \in from..e : s[x] \notin Whitespace
                /\ e = Len(s) \/ s[e + 1] \in Whitespace
  IN  SubSeq(s, from, to)

\* a report line carries a token
CarriesToken(line) ==
  line # EmptyStr /\ HasSpace(line) /\ ~IsBlank(AfterFirstSpace(line))

\* the tokens the first n report lines carry for an account, in line order
RECURSIVE TokensFor(_, _)
TokensFor(name, n) ==
  IF n = 0 THEN <<>>
  ELSE LET line == balance_lines[n]
       IN  IF CarriesToken(line) /\ BeforeFirstSpace(line) = name
           THEN Append(TokensFor(name, n - 1), FirstToken(AfterFirstSpace(line)))
           ELSE TokensFor(name, n - 1)

LinesDone == IF pc = "balance" THEN j - 1 ELSE Len(balance_lines)

\* C18: during and after balance reconciliation, the balance list of every
\* account record is exactly the tokens carried by the report lines processed so
\* far that name it before their first space, in line order, each once: empty
\* lines, lines without a space and lines blank after the first space add
\* nothing, and a token for a name without a record adds nothing and stops nothing
C18_BalanceTokensByRule ==
  PassOver =>
    \A name \in DOMAIN accounts :
      accounts[name].balance = TokensFor(name, LinesDone)

\* both lines of the report are read: the first carries a token after two spaces
\* for an account with a record, the second a token for an account without one
C18_Witness ==
  /\ pc = "done"
  /\ balance_lines = <<Line_cash_usd, Line_unknown, EmptyStr>>
  /\ Acc_Cash \in DOMAIN accounts
  /\ Acc_Unknown \notin DOMAIN accounts
  /\ accounts[Acc_Cash].balance = <<S_12_34>>


\* one sequence starts with the other
IsPrefix(s, t) == Len(s) <= Len(t) /\ SubSeq(t, 1, Len(s)) = s

\* a step that reads one line of the balance report
ReadsReportLine == pc = "balance" /\ pc' = "balance" /\ j' = j + 1

\* C19: a step that reads one line of the balance report leaves the set of account
\* records, every record's open, close and currencies, the five sets, the flagged
\* list and the automatic index as they were, and every balance list keeps the
\* tokens it had, in their order, at its front
C19_ReconciliationFrame ==
  [][ReadsReportLine =>
        /\ DOMAIN accounts' = DOMAIN accounts
        /\ \A name \in DOMAIN accounts :
             /\ accounts'[name].open = accounts[name].open
             /\ accounts'[name].close = accounts[name].close
             /\ accounts'[name].currencies = accounts[name].currencies
             /\ IsPrefix(accounts[name].balance, accounts'[name].balance)
        /\ UNCHANGED <<commodities, payees, narrations, tags, links,
                       flagged_entries, automatics>>]_vars

\* two lines were read for an account that holds a token already: the second
\* token went behind the first, a closed account with currencies kept its fields
C19_Witness ==
  /\ pc = "balance"
  /\ j = 3
  /\ balance_lines = <<Line_cash_usd, Line_cash_eur, EmptyStr>>
  /\ Acc_Cash \in DOMAIN accounts
  /\ accounts[Acc_Cash].balance = <<S_12_34, <<"5">>>>
  /\ Acc_Bank \in DOMAIN accounts
  /\ accounts[Acc_Bank].close # EmptyStr
  /\ accounts[Acc_Bank].currencies = <<S_USD, S_EUR>>


\* the entry pass is still to start or under way
InEntryPass == pc \in {"load", "loop"}

\* C20: while the entry pass is under way every balance list is empty and nothing
\* is printed; the balance report is read only once every entry has been
\* processed, and nothing is printed until its last line has been read; from the
\* first report line on no step removes an account record or a token of a
\* balance list
C20_ReconciliationAfterEntriesBeforeOutput ==
  /\ [](/\ InEntryPass =>
             /\ \A name \in DOMAIN accounts : accounts[name].balance = <<>>
             /\ stdout = <<>>
        /\ pc = "balance" => (i > Len(entries) /\ stdout = <<>>)
        /\ (\E name \in DOMAIN accounts : accounts[name].balance # <<>>) =>
             (PassOver /\ i > Len(entries))
        /\ stdout # <<>> => (pc \in {"print", "done"} /\ j > Len(balance_lines)))
  /\ [][PassOver =>
          \A name \in DOMAIN accounts :
            /\ name \in DOMAIN accounts'
            /\ IsPrefix(accounts[name].balance, accounts'[name].balance)]_vars

\* an account opened, closed and opened again holds the token of its report line
\* when the four documents are out
C20_Witness ==
  /\ pc = "done"
  /\ Len(stdout) = 4
  /\ Len(entries) = 3
  /\ entries[3] = Open(Acc_Bank, Day2, None)
  /\ balance_lines = <<Line_bank, EmptyStr>>
  /\ accounts[Acc_Bank].balance = <<<<"7">>>>


-----------------------------------------------------------------------------
(* Dispatch of the entry loop *)

\* a step of the entry loop, on the entry at position i
HandlesEntry == pc = "loop" /\ i <= Len(entries) /\ i' = i + 1

\* what only the Transaction branch writes
TransactionStateUnchanged ==
  UNCHANGED <<commodities, payees, narrations, tags, links, automatics>>

\* C21: a step of the entry loop on an entry that is no Transaction, Open or Close
\* leaves the accounts, the five sets, the flagged list and the automatic index
\* as they were and the loop goes on; a step on a Transaction leaves the accounts
\* alone; a step on an Open writes nothing a Transaction writes and leaves no
\* close date on the record it makes; a step on a Close writes nothing a
\* Transaction writes, makes no record and changes no open date, currencies or
\* balance list
C21_OtherEntriesIgnoredOneHandler ==
  [][HandlesEntry =>
       LET entry == entries[i]
       IN  /\ entry.kind \notin {"Transaction", "Open", "Close"} =>
                /\ UNCHANGED <<accounts, flagged_entries>>
                /\ TransactionStateUnchanged
                /\ pc' = "loop"
           /\ entry.kind = "Transaction" => UNCHANGED accounts
           /\ entry.kind = "Open" =>
                /\ TransactionStateUnchanged
                /\ UNCHANGED flagged_entries
                /\ pc' = "loop"
                /\ \A name \in DOMAIN accounts' :
                     \/ /\ name \in DOMAIN accounts
                        /\ accounts'[name] = accounts[name]
                     \/ /\ name = entry.account
                        /\ accounts'[name].close = EmptyStr
           /\ entry.kind = "Close" =>
                /\ TransactionStateUnchanged
                /\ UNCHANGED flagged_entries
                /\ pc' = "loop"
                /\ DOMAIN accounts' = DOMAIN accounts
                /\ \A name \in DOMAIN accounts :
                     /\ accounts'[name].open = accounts[name].open
                     /\ accounts'[name].currencies = accounts[name].currencies
                     /\ accounts'[name].balance = accounts[name].balance]_vars

\* a Note that names an open account has been passed over after a Transaction
\* filled the sets: the account record and the sets stand as before
C21_Witness ==
  /\ pc = "loop"
  /\ i = 4
  /\ entries[1].kind = "Open"
  /\ entries[2].kind = "Transaction"
  /\ entries[3] = Note(Acc_Cash)
  /\ DOMAIN accounts = {Acc_Cash}
  /\ accounts[Acc_Cash].close = EmptyStr
  /\ commodities # {}
  /\ flagged_entries # <<>>


-----------------------------------------------------------------------------
(* The two runs that differ in --payeeNarration only *)

\* C22: once loaded, the run and its twin with the other flag setting, over
\* the same entries and errors, hold the same accounts, commodities, tags, links,
\* flagged list and automatic index, the twin fails in the entry loop only if the
\* run does, and the error list is the one made from the errors, which no flag
\* enters
C22_FlagChangesPayeesNarrationsOnly ==
  twin.complete_payee_narration # complete_payee_narration =>
    /\ pc # "load"
    /\ error_list = ErrorList(errors)
    /\ twin.accounts = accounts
    /\ twin.commodities = commodities
    /\ twin.tags = tags
    /\ twin.links = links
    /\ twin.flagged_entries = flagged_entries
    /\ twin.automatics = automatics
    /\ twin.raised => pc = "failed"

\* both runs are through a ledger with an account, a flagged Transaction with a
\* tag, a link and an automatic posting, and a loader error: their payees and
\* narrations differ
C22_Witness ==
  /\ pc = "done"
  /\ twin.complete_payee_narration # complete_payee_narration
  /\ error_list # <<>>
  /\ accounts # EmptyDict
  /\ tags # {} /\ links # {} /\ commodities # {}
  /\ flagged_entries # <<>>
  /\ automatics # EmptyDict
  /\ twin.payees # payees
  /\ twin.narrations # narrations


-----------------------------------------------------------------------------
(* Commodities *)

\* the non-empty currencies of the units of the postings of the Transactions
\* among the first n entries
CurrenciesOf(entry) ==
  IF entry.kind # "Transaction" THEN {}
  ELSE { entry.postings[p].units.currency :
           p \in {x \in DOMAIN entry.postings : ~IsNoneRec(entry.postings[x].units)} }
CurrenciesUpTo(n) == UNION {CurrenciesOf(entries[k]) : k \in 1..n} \ {EmptyStr}

\* C23: in the entry loop the commodity set is the set of non-empty currencies of
\* the units of the postings of the Transactions processed so far, and from the
\* end of the loop on that of all Transactions of the input; the second document
\* lists them, each once
C23_CommoditiesAreUnitCurrencies ==
  /\ pc = "loop" => commodities = CurrenciesUpTo(i - 1)
  /\ PassOver => commodities = CurrenciesUpTo(Len(entries))
  /\ Len(stdout) >= 2 =>
       /\ {stdout[2].commodities[k] : k \in DOMAIN stdout[2].commodities}
            = CurrenciesUpTo(Len(entries))
       /\ Len(stdout[2].commodities) = Cardinality(CurrenciesUpTo(Len(entries)))

\* three entries are through: an Open with two currencies, a Transaction with a
\* posting in USD after one with an empty currency, and one without units; USD
\* alone is printed
C23_Witness ==
  /\ pc = "done"
  /\ Len(entries) = 3
  /\ entries[1].kind = "Open"
  /\ entries[2].kind = "Transaction"
  /\ entries[2].postings = <<P_nocurrency, P_plain>>
  /\ entries[3].kind = "Transaction"
  /\ entries[3].postings = <<P_nounits>>
  /\ commodities = {S_USD}
  /\ stdout[2].commodities = <<S_USD>>


-----------------------------------------------------------------------------
(* Payees *)

\* the payees of the Transactions of the input that are a non-empty text other
\* than "None"
PayeesOfInput ==
  { entries[k].payee : k \in {x \in DOMAIN entries : entries[x].kind = "Transaction"} }
    \ {None, EmptyStr, S_None}

\* C24: in a run with --payeeNarration, once the sets are cleaned up the payee set
\* is the set of payees of all Transactions of the input that are non-empty and
\* not "None", those of Transactions whose narration starts with
\* "(Padding inserted" included, and the second document lists them, each once
C24_VerbosePayees ==
  complete_payee_narration =>
    /\ pc \in {"build", "print", "done"} => payees = PayeesOfInput
    /\ Len(stdout) >= 2 =>
         /\ {stdout[2].payees[k] : k \in DOMAIN stdout[2].payees} = PayeesOfInput
         /\ Len(stdout[2].payees) = Cardinality(PayeesOfInput)

\* a run with the flag has printed: a Transaction whose narration is
\* "(Padding inserted" gave its payee, one whose payee is "None" gave none
C24_Witness ==
  /\ complete_payee_narration
  /\ pc = "done"
  /\ \E k \in DOMAIN entries :
       /\ entries[k].narration = S_PaddingInserted
       /\ entries[k].payee = S_Cafe
  /\ \E k \in DOMAIN entries : entries[k].payee = S_None
  /\ stdout[2].payees = <<S_Cafe>>
  /\ narrations = {}


-----------------------------------------------------------------------------
(* Growth of the automatic index *)

\* the (file, line) keys of the index
AutomaticKeys ==
  UNION {{<<f, l>> : l \in DOMAIN automatics[f]} : f \in DOMAIN automatics}

\* C25: no step removes a file key, a line key or an amount of the automatic
\* index or moves an amount to another position; a (file, line) key exists only
\* once an automatic posting with units at that file and line has been
\* processed; the fourth document holds every amount at the position it has in
\* the index
C25_AutomaticsOnlyGrow ==
  /\ [][\A f \in DOMAIN automatics :
          /\ f \in DOMAIN automatics'
          /\ \A l \in DOMAIN automatics[f] :
               /\ l \in DOMAIN automatics'[f]
               /\ IsPrefix(automatics[f][l], automatics'[f][l])]_vars
  /\ [](/\ \A key \in AutomaticKeys :
             AutomaticAt(PostingsUpTo(i - 1), key[1], key[2]) # <<>>
        /\ Succeeded =>
             \A key \in AutomaticKeys :
               /\ key[1] \in DOMAIN stdout[4]
               /\ IntToStr(key[2]) \in DOMAIN stdout[4][key[1]]
               /\ stdout[4][key[1]][IntToStr(key[2])] = automatics[key[1]][key[2]])

\* the index took a second, different amount at a file and line it already had,
\* and a second file, and the fourth document is out
C25_Witness ==
  /\ Succeeded
  /\ DOMAIN automatics = {F_main, F_inc}
  /\ 3 \in DOMAIN automatics[F_main]
  /\ Len(automatics[F_main][3]) = 2
  /\ automatics[F_main][3][1] # automatics[F_main][3][2]
  /\ stdout[4][F_main][<<"3">>] = automatics[F_main][3]


\* an index, as held or as printed, without a file that has no line and without a
\* line that has no amount
NoEmptyContainer(index) ==
  \A f \in DOMAIN index :
    /\ DOMAIN index[f] # {}
    /\ \A l \in DOMAIN index[f] : index[f][l] # <<>>

\* C26: in every state every file key of the automatic index has a line key and
\* every line key a list with an amount in it, and so has the fourth document
C26_NoEmptyContainer ==
  /\ NoEmptyContainer(automatics)
  /\ Succeeded => NoEmptyContainer(stdout[4])

\* the run is through a Transaction with a posting marked automatic that has no
\* units, at a line no other posting carries: the index holds other lines only
C26_Witness ==
  /\ Succeeded
  /\ \E k \in DOMAIN entries :
       /\ entries[k].kind = "Transaction"
       /\ \E p \in DOMAIN entries[k].postings : entries[k].postings[p] = P_auto_nounits
  /\ F_main \in DOMAIN automatics
  /\ P_auto_nounits.meta.lineno \notin DOMAIN automatics[F_main]
  /\ P_auto_nounits.meta.filename = F_main
  /\ DOMAIN stdout[4] = {F_main}


-----------------------------------------------------------------------------
(* The flag-name lookup *)

\* the name of a flag code in beancount.core.flags, the code itself if it has none
NameOfCode(code) ==
  IF code = S_Bang THEN S_WARNING
  ELSE IF code = S_Star THEN <<"O","K","A","Y">>
  ELSE IF code = <<"P">> THEN <<"P","A","D","D","I","N","G">>
  ELSE code

\* C27: the lookup is unset until the first call of get_flag_metadata, set by it,
\* and never changed by a step once set; every record made, by the first call or
\* a later one, carries in its message the name of its flag code, and the code
\* itself if the lookup has no name for it, so records of one code carry one name
C27_LookupWrittenOnce ==
  /\ [][reverse_flag_map # None => reverse_flag_map' = reverse_flag_map]_vars
  /\ []((reverse_flag_map = None) <=> (flagged_entries = <<>>))
  /\ [](\A k \in DOMAIN flagged_entries :
          flagged_entries[k].message
            = FlagMessage(S_Transaction, NameOfCode(flagged_entries[k].flag), S_ReviewMe))

\* three calls: a code the lookup lacks, a code it has, the first code again
C27_Witness ==
  /\ Len(flagged_entries) = 3
  /\ flagged_entries[1].flag = <<"?">>
  /\ flagged_entries[2].flag = S_Bang
  /\ flagged_entries[3].flag = <<"?">>
  /\ flagged_entries[1].message = flagged_entries[3].message
  /\ flagged_entries[1].message
       = S_Transaction \o S_HasFlag \o <<"?", " ", "(">> \o S_ReviewMe \o <<")">>
  /\ reverse_flag_map # None
  /\ <<"?">> \notin DOMAIN reverse_flag_map

====
